---- MODULE Spec2Model ----
(***************************************************************************)
(* Model of the phase-mirror-markets coherence engine.                     *)
(*                                                                         *)
(*   apps/coherence-engine/coherence_engine.py  hierarchy report           *)
(*   apps/coherence-engine/main.py              GET /coherence/report      *)
(*   market_phase_adapter.py                    phase-space adapter        *)
(*   market_coherence_analyzer.py               metric suite               *)
(*                                                                         *)
(* Floating-point numbers are fixed-point integers (value * Scale) plus    *)
(* the one non-finite value NaN.  A 128-sample series of the engine is     *)
(* [len, id]: id names the random blocks the samples were computed from,   *)
(* so two series are equal exactly when they were drawn alike.             *)
(***************************************************************************)
EXTENDS Integers, Sequences, FiniteSets, TLC

VARIABLES salt,      \* per process: the string-hash key of the interpreter
          rng,       \* per process: state of numpy's global RandomState
          req,       \* per request: the state of one get_coherence_report
          fault,     \* outcome of the data source for one chosen symbol
          clock,     \* pd.Timestamp.now()
          running,   \* the request whose handler thread holds the CPU
          preempts,  \* number of preemptions so far
          call,      \* library call under examination
          ret        \* its result

vars == <<salt, rng, req, fault, clock, running, preempts, call, ret>>

engineVars == <<salt, rng, req, fault, clock, running, preempts>>

libVars == <<call, ret>>

-----------------------------------------------------------------------------
(* Numbers *)

Scale == 1000

NaN == -1000000000

IsNaN(x) == x = NaN

Min2(a, b) == IF a < b THEN a ELSE b

Max2(a, b) == IF a > b THEN a ELSE b

Abs(a) == IF a < 0 THEN -a ELSE a

EmptyMap == [k \in {} |-> 0]

RECURSIVE SeqSum(_)
SeqSum(s) == IF s = <<>> THEN 0 ELSE Head(s) + SeqSum(Tail(s))

\* fixed-point product and quotient, rounded to nearest
Mul(a, b) == (a * b + Scale \div 2) \div Scale

Div(a, b) == (2 * a * Scale + b) \div (2 * b)

\* x / n for a whole number n
DivInt(a, n) == (2 * a + n) \div (2 * n)

RECURSIVE ISqrtFrom(_, _)
ISqrtFrom(n, g) ==
    LET h == (g + n \div g) \div 2
    IN  IF h >= g THEN g ELSE ISqrtFrom(n, h)

\* floor of the square root of a whole number
ISqrt(n) == IF n <= 0 THEN 0 ELSE ISqrtFrom(n, n)

\* np.sqrt of a fixed-point number
Sqrt(x) == ISqrt(x * Scale)

Pi == 3142

TwoPi == 6283

HalfPi == 1571

\* the angle x brought into (-pi, pi]
RECURSIVE WrapAngle(_)
WrapAngle(x) ==
    IF x > Pi THEN WrapAngle(x - TwoPi)
    ELSE IF x <= -Pi THEN WrapAngle(x + TwoPi)
    ELSE x

QuarterPi == 785

\* Taylor polynomials on [-pi/4, pi/4]
SinPoly(x) ==
    LET x2 == Mul(x, x)
        x3 == Mul(x2, x)
    IN  x - DivInt(x3, 6) + DivInt(Mul(x3, x2), 120)

CosPoly(x) ==
    LET x2 == Mul(x, x)
        x4 == Mul(x2, x2)
    IN  Scale - DivInt(x2, 2) + DivInt(x4, 24) - DivInt(Mul(x4, x2), 720)

\* sine and cosine on [-pi/2, pi/2]
SinHalf(x) ==
    IF x > QuarterPi THEN CosPoly(HalfPi - x)
    ELSE IF x < -QuarterPi THEN -CosPoly(HalfPi + x)
    ELSE SinPoly(x)

CosHalf(x) ==
    IF x > QuarterPi THEN SinPoly(HalfPi - x)
    ELSE IF x < -QuarterPi THEN SinPoly(HalfPi + x)
    ELSE CosPoly(x)

\* np.cos, np.sin
Cos(x) ==
    LET w == WrapAngle(x)
    IN  IF w > HalfPi THEN -CosHalf(Pi - w)
        ELSE IF w < -HalfPi THEN -CosHalf(Pi + w)
        ELSE CosHalf(w)

Sin(x) ==
    LET w == WrapAngle(x)
    IN  IF w > HalfPi THEN SinHalf(Pi - w)
        ELSE IF w < -HalfPi THEN -SinHalf(Pi + w)
        ELSE SinHalf(w)

\* arctan of z in [0, 1]
AtanUnit(z) == Mul(QuarterPi, z) + Mul(Mul(z, Scale - z), 245 + Mul(66, z))

\* np.angle of re + i*im, in (-pi, pi]; the angle of 0 is 0
Atan2(im, re) ==
    LET a == Abs(re)
        b == Abs(im)
        t == IF a = 0 /\ b = 0 THEN 0
             ELSE IF b <= a THEN AtanUnit(Div(b, a))
             ELSE HalfPi - AtanUnit(Div(a, b))
        q == IF re >= 0 THEN t ELSE Pi - t
    IN  IF im < 0 THEN -q ELSE q

\* the longest transform taken
MaxTransform == 8

\* cos and sin of 2*pi*j/n, tabulated for n <= MaxTransform
CosTable ==
    [n \in 1 .. MaxTransform |-> [j \in 0 .. n - 1 |-> Cos(DivInt(TwoPi * j, n))]]

SinTable ==
    [n \in 1 .. MaxTransform |-> [j \in 0 .. n - 1 |-> Sin(DivInt(TwoPi * j, n))]]

CosTurn(j, n) == CosTable[n][j % n]

SinTurn(j, n) == SinTable[n][j % n]

-----------------------------------------------------------------------------
(* numpy arrays: sequences of fixed-point numbers *)

\* float arithmetic: NaN is contagious
FAdd(a, b) == IF IsNaN(a) \/ IsNaN(b) THEN NaN ELSE a + b

FSub(a, b) == IF IsNaN(a) \/ IsNaN(b) THEN NaN ELSE a - b

FMul(a, b) == IF IsNaN(a) \/ IsNaN(b) THEN NaN ELSE Mul(a, b)

\* 0/0 is nan; no other division by zero occurs in the code modelled
FDiv(a, b) ==
    IF IsNaN(a) \/ IsNaN(b) \/ b = 0 THEN NaN ELSE Div(a, b)

HasNaN(s) == \E k \in DOMAIN s : IsNaN(s[k])

\* np.mean: the mean of no number is nan
Mean(s) ==
    IF Len(s) = 0 \/ HasNaN(s) THEN NaN ELSE DivInt(SeqSum(s), Len(s))

\* x - c, elementwise
Shift(s, c) == [k \in DOMAIN s |-> FSub(s[k], c)]

\* np.std = sqrt(mean(|x - mean|^2))
Std(s) ==
    IF Len(s) = 0 \/ HasNaN(s) THEN NaN
    ELSE LET m == Mean(s)
         IN  ISqrt(SeqSum([k \in DOMAIN s |-> (s[k] - m) * (s[k] - m)]) \div Len(s))

RECURSIVE SeqMin(_)
SeqMin(s) == IF Len(s) = 1 THEN s[1] ELSE Min2(Head(s), SeqMin(Tail(s)))

RECURSIVE SeqMax(_)
SeqMax(s) == IF Len(s) = 1 THEN s[1] ELSE Max2(Head(s), SeqMax(Tail(s)))

\* |re + i*im|
Hypot(re, im) == ISqrt(re * re + im * im)

\* np.fft.fft: X[k] = sum_m x[m] exp(-2 pi i k m / N), k = 0 .. N-1
Dft(x) ==
    LET N == Len(x)
    IN  [k \in 0 .. N - 1 |->
            [re |-> SeqSum([m \in 1 .. N |-> Mul(x[m], CosTurn(k * (m - 1), N))]),
             im |-> -SeqSum([m \in 1 .. N |-> Mul(x[m], SinTurn(k * (m - 1), N))])]]

\* the one-sided weights h of scipy.signal.hilbert
HilbertWeight(N, k) ==
    IF k = 0 THEN 1
    ELSE IF N % 2 = 0
         THEN (IF k = N \div 2 THEN 1 ELSE IF k < N \div 2 THEN 2 ELSE 0)
         ELSE (IF k < (N + 1) \div 2 THEN 2 ELSE 0)

\* scipy.signal.hilbert: the analytic signal ifft(fft(x) * h), for N >= 1
hilbert(x) ==
    LET N == Len(x)
        X == Dft(x)
    IN  [n \in 1 .. N |->
            [re |-> DivInt(SeqSum([j \in 1 .. N |->
                        HilbertWeight(N, j - 1) *
                          (Mul(X[j - 1].re, CosTurn((j - 1) * (n - 1), N))
                           - Mul(X[j - 1].im, SinTurn((j - 1) * (n - 1), N)))]), N),
             im |-> DivInt(SeqSum([j \in 1 .. N |->
                        HilbertWeight(N, j - 1) *
                          (Mul(X[j - 1].re, SinTurn((j - 1) * (n - 1), N))
                           + Mul(X[j - 1].im, CosTurn((j - 1) * (n - 1), N)))]), N)]]

\* np.angle, np.abs of a complex array
Angles(z) == [k \in DOMAIN z |-> Atan2(z[k].im, z[k].re)]

Moduli(z) == [k \in DOMAIN z |-> Hypot(z[k].re, z[k].im)]

\* the correction np.unwrap adds for one step dd of the phase
PhaseCorrection(dd) ==
    LET m == ((dd + Pi) % TwoPi) - Pi
        ddmod == IF m = -Pi /\ dd > 0 THEN Pi ELSE m
    IN  IF Abs(dd) < Pi THEN 0 ELSE ddmod - dd

\* np.unwrap
RECURSIVE Unwrap(_)
Unwrap(p) ==
    IF Len(p) < 2 THEN p
    ELSE LET u == Unwrap(SubSeq(p, 1, Len(p) - 1))
             n == Len(p)
         IN  Append(u, p[n] + (u[n - 1] - p[n - 1])
                            + PhaseCorrection(p[n] - p[n - 1]))

\* np.gradient with unit spacing, for len(f) >= 2
Gradient(f) ==
    LET n == Len(f)
    IN  [k \in 1 .. n |->
            IF k = 1 THEN f[2] - f[1]
            ELSE IF k = n THEN f[n] - f[n - 1]
            ELSE DivInt(f[k + 1] - f[k - 1], 2)]

-----------------------------------------------------------------------------
(* coherence_engine.py: configuration *)

SectorNames == <<"Macro", "Crypto", "Tech", "Finance", "Energy">>

SECTORS ==
    [Macro   |-> <<"SPY", "QQQ", "DIA">>,
     Crypto  |-> <<"BTC-USD", "ETH-USD", "SOL-USD">>,
     Tech    |-> <<"AAPL", "MSFT", "NVDA", "GOOGL">>,
     Finance |-> <<"JPM", "GS", "BAC">>,
     Energy  |-> <<"XOM", "CVX", "SLB">>]

Range(s) == {s[k] : k \in DOMAIN s}

RECURSIVE Flatten(_)
Flatten(names) ==
    IF names = <<>> THEN <<>> ELSE SECTORS[Head(names)] \o Flatten(Tail(names))

all_symbols == Flatten(SectorNames)

Symbols == Range(all_symbols)

SymIndex(sym) == CHOOSE k \in DOMAIN all_symbols : all_symbols[k] = sym

count == 128

MinCoherenceLen == 32

MaxSeg == 64

-----------------------------------------------------------------------------
(* Bounds of the exploration *)

Salts == 0 .. 2

UndersizedLen == 16

MaxPreempt == 1

MaxLen == 4

MaxSamples == 34

Tol == 10

Requests == {1, 2}

Procs == {1, 2}

-----------------------------------------------------------------------------
(* coherence_engine.py: fetch_real_data *)

DrawsPerSeed == 8

SeedModulus == 1000

\* hash(symbol): CPython keys the string hash with a per-process secret.
StrHash(s, sym) ==
    (SymIndex(sym) * 7919 + s * 104729 + SymIndex(sym) * s * 31) % 65536

HashSeed(s, sym) == StrHash(s, sym) % SeedModulus

Unseeded == [seed |-> SeedModulus, k |-> 0]

\* np.random.seed(n)
Seeded(n) == [seed |-> n, k |-> 0]

\* the block of `count` normal deviates the generator yields in state st
BlockId(st) == st.seed * DrawsPerSeed + st.k

\* np.random.randn(count) advances the generator
Advance(st) == [seed |-> st.seed, k |-> Min2(st.k + 1, DrawsPerSeed - 1)]

NumBlocks == (SeedModulus + 1) * DrawsPerSeed

HasTrend(sym) == \E s \in {"Macro", "Tech"} : sym \in Range(SECTORS[s])

NoSeries == [len |-> 0, id |-> 0]

\* base = 100 + cumsum(randn * 0.5) (+ arange * 0.05)
BaseSeries(sym, blk, n) ==
    [len |-> n, id |-> 1 + blk * 2 + (IF HasTrend(sym) THEN 1 ELSE 0)]

\* volume = 1000 + abs(randn * 100) + base / 10
VolumeSeries(base, blk, n) ==
    [len |-> n, id |-> 1 + (blk + 1) * NumBlocks * 2 + base.id]

NoneFrame == [isNone |-> TRUE, close |-> NoSeries, volume |-> NoSeries]

Frame(c, v) == [isNone |-> FALSE, close |-> c, volume |-> v]

NoFault == [sym |-> "", kind |-> "ok"]

\* the data source has the Macro symbols only
StocksAbsent == [sym |-> "", kind |-> "stocks_none"]

Prefix(s, n) == [len |-> Min2(s.len, n), id |-> s.id]

\* what the data source hands back for sym
fetch_real_data(sym, c, v, flt) ==
    IF flt.sym = sym /\ flt.kind = "none" THEN NoneFrame
    ELSE IF flt.kind = "stocks_none" /\ sym \notin Range(SECTORS["Macro"])
         THEN NoneFrame
    ELSE IF flt.sym = sym /\ flt.kind = "short"
         THEN Frame(Prefix(c, UndersizedLen), Prefix(v, UndersizedLen))
         ELSE Frame(c, v)

-----------------------------------------------------------------------------
(* coherence_engine.py: metrics *)

\* np.diff(np.log(s))
LogReturns(s) == [len |-> Max2(s.len - 1, 0), id |-> s.id]

Digest(s) == (s.id % 9973) * 7 + s.len

\* np.mean(Cxy) of scipy.signal.coherence(r1, r2, nperseg): a number of
\* [0,1] determined by the two inputs, symmetric, 1 for identical inputs
MeanCoherence(r1, r2, nperseg) ==
    IF r1 = r2 THEN Scale
    ELSE ((Digest(r1) + Digest(r2)) * 37 + nperseg) % (Scale + 1)

\* the call without "[:min_len]": the series go to the estimate as they are
CoherenceCall_NoTruncate(s1, s2) ==
    LET min_len == Min2(s1.len, s2.len)
        r1 == LogReturns(s1)
        r2 == LogReturns(s2)
    IN  IF min_len < MinCoherenceLen
        THEN [exc |-> "none", value |-> 0, spectral |-> <<>>]
        ELSE [exc |-> "none",
              value |-> MeanCoherence(r1, r2, Min2(r1.len, MaxSeg)),
              spectral |-> <<r1, r2>>]

\* calculate_coherence with the inputs it hands to scipy.signal.coherence
\* (spectral = <<>>: no spectral estimate is run)
CoherenceCall(s1, s2) ==
    LET min_len == Min2(s1.len, s2.len)
        r1 == LogReturns(Prefix(s1, min_len))
        r2 == LogReturns(Prefix(s2, min_len))
    IN  IF min_len < MinCoherenceLen
        THEN [exc |-> "none", value |-> 0, spectral |-> <<>>]
        ELSE [exc |-> "none",
              value |-> MeanCoherence(r1, r2, Min2(r1.len, MaxSeg)),
              spectral |-> <<r1, r2>>]

calculate_coherence(s1, s2) == CoherenceCall(s1, s2).value

\* peak_power / total_power of scipy.signal.welch(returns, nperseg)
PeakShare(returns, nperseg) ==
    IF nperseg = 1 THEN 0
    ELSE 1 + ((Digest(returns) * 31 + nperseg) % Scale)

calculate_resonance_stability(series) ==
    LET returns == LogReturns(series)
        nperseg == Min2(returns.len, MaxSeg)
    IN  IF returns.len = 0
        THEN [exc |-> "ValueError", value |-> 0]
        ELSE [exc |-> "none", value |-> PeakShare(returns, nperseg)]

calculate_hemispheric_coupling(buy_side, sell_side) ==
    calculate_coherence(buy_side, sell_side)

RECURSIVE IdSum(_)
IdSum(signals) ==
    IF signals = <<>> THEN 0
    ELSE (Head(signals).id % 9973) + IdSum(Tail(signals))

\* np.mean(sector_signals, axis=0): arrays of unequal length do not stack
MeanSignals(signals) ==
    IF \E a, b \in DOMAIN signals : signals[a].len # signals[b].len
    THEN [exc |-> "ValueError", value |-> NoSeries]
    ELSE [exc |-> "none",
          value |-> IF Len(signals) = 1 THEN signals[1]
                    ELSE [len |-> signals[1].len,
                          id |-> NumBlocks * NumBlocks * 4
                                 + IdSum(signals) * 16 + Len(signals)]]

-----------------------------------------------------------------------------
(* coherence_engine.py: analyze_fractal_coherence, as functions of the     *)
(* fetched data                                                            *)

NewResults(now) ==
    [timestamp |-> now,
     macro |-> EmptyMap, meso |-> EmptyMap, micro |-> EmptyMap,
     faraday_resonance |-> EmptyMap,
     hemispheric_coupling |-> 0,
     emotional_intelligence |-> 0]

Ok(res) == [exc |-> "none", results |-> res]

Raise(e, res) == [exc |-> e, results |-> res]

\* the iteration without the "if sym != 'SPY'" of line 68
MacroBody_NoRefSkip(data, macro_ref, results, sym) ==
    IF data[sym].isNone THEN Raise("TypeError", results)
    ELSE Ok([results EXCEPT !.macro =
                (("SPY_vs_" \o sym) :> calculate_coherence(macro_ref, data[sym].close)) @@ @])

\* one iteration of "for sym in SECTORS['Macro']"
MacroBody(data, macro_ref, results, sym) ==
    IF sym = "SPY" THEN Ok(results)
    ELSE IF data[sym].isNone THEN Raise("TypeError", results)
    ELSE Ok([results EXCEPT !.macro =
                (("SPY_vs_" \o sym) :> calculate_coherence(macro_ref, data[sym].close)) @@ @])

\* [data[sym]["close"].values for sym in symbols if data[sym] is not None]
RECURSIVE SectorSignals(_, _)
SectorSignals(data, symbols) ==
    IF symbols = <<>> THEN <<>>
    ELSE IF data[Head(symbols)].isNone
         THEN SectorSignals(data, Tail(symbols))
         ELSE <<data[Head(symbols)].close>> \o SectorSignals(data, Tail(symbols))

\* "for sym in symbols": micro coherence and Faraday resonance per stock
RECURSIVE MicroLoop(_, _, _, _)
MicroLoop(data, symbols, micro, faraday) ==
    IF symbols = <<>>
    THEN [exc |-> "none", micro |-> micro, faraday |-> faraday]
    ELSE LET sym == Head(symbols)
             stock_data == data[sym]
         IN  IF stock_data.isNone
             THEN [exc |-> "TypeError", micro |-> micro, faraday |-> faraday]
             ELSE LET coh == calculate_coherence(stock_data.close, stock_data.volume)
                      res == calculate_resonance_stability(stock_data.close)
                      micro2 == (sym :> coh) @@ micro
                  IN  IF res.exc # "none"
                      THEN [exc |-> res.exc, micro |-> micro2, faraday |-> faraday]
                      ELSE MicroLoop(data, Tail(symbols), micro2,
                                     (sym :> res.value) @@ faraday)

\* the loop body without the "if sector == 'Macro': continue" of line 73
SectorBody_NoSkip(data, macro_ref, results, sector) ==
    LET symbols == SECTORS[sector]
        sector_signals == SectorSignals(data, symbols)
        sector_avg == MeanSignals(sector_signals)
        ml == MicroLoop(data, symbols, EmptyMap, results.faraday_resonance)
    IN  IF sector_signals = <<>> THEN Ok(results)
        ELSE IF sector_avg.exc # "none" THEN Raise(sector_avg.exc, results)
        ELSE [exc |-> ml.exc,
              results |-> [results EXCEPT
                  !.meso = ((sector \o "_vs_Market") :>
                              calculate_coherence(sector_avg.value, macro_ref)) @@ @,
                  !.micro = (sector :> ml.micro) @@ @,
                  !.faraday_resonance = ml.faraday]]

\* one iteration of "for sector, symbols in SECTORS.items()"
SectorBody(data, macro_ref, results, sector) ==
    LET symbols == SECTORS[sector]
        sector_signals == SectorSignals(data, symbols)
    IN  IF sector = "Macro" THEN Ok(results)
        ELSE IF sector_signals = <<>> THEN Ok(results)
        ELSE LET sector_avg == MeanSignals(sector_signals)
             IN  IF sector_avg.exc # "none" THEN Raise(sector_avg.exc, results)
                 ELSE LET meso == ((sector \o "_vs_Market") :>
                                     calculate_coherence(sector_avg.value, macro_ref))
                                  @@ results.meso
                          ml == MicroLoop(data, symbols, EmptyMap,
                                          results.faraday_resonance)
                      IN  [exc |-> ml.exc,
                           results |-> [results EXCEPT
                                          !.meso = meso,
                                          !.micro = (sector :> ml.micro) @@ @,
                                          !.faraday_resonance = ml.faraday]]

\* the coupling taken between SPY's close and QQQ's volume
CouplingBody_Volume(data, results) ==
    IF data["SPY"].isNone \/ data["QQQ"].isNone THEN Raise("TypeError", results)
    ELSE Ok([results EXCEPT !.hemispheric_coupling =
                calculate_hemispheric_coupling(data["SPY"].close, data["QQQ"].volume)])

CouplingBody(data, results) ==
    IF data["SPY"].isNone \/ data["QQQ"].isNone THEN Raise("TypeError", results)
    ELSE Ok([results EXCEPT !.hemispheric_coupling =
                calculate_hemispheric_coupling(data["SPY"].close, data["QQQ"].close)])

RECURSIVE MapSum(_)
MapSum(f) ==
    IF DOMAIN f = {} THEN 0
    ELSE LET k == CHOOSE k \in DOMAIN f : TRUE
         IN  f[k] + MapSum([j \in DOMAIN f \ {k} |-> f[j]])

RECURSIVE MicroSum(_)
MicroSum(micro) ==
    IF DOMAIN micro = {} THEN 0
    ELSE LET s == CHOOSE s \in DOMAIN micro : TRUE
         IN  MapSum(micro[s]) + MicroSum([j \in DOMAIN micro \ {s} |-> micro[j]])

RECURSIVE MicroCount(_)
MicroCount(micro) ==
    IF DOMAIN micro = {} THEN 0
    ELSE LET s == CHOOSE s \in DOMAIN micro : TRUE
         IN  Cardinality(DOMAIN micro[s])
             + MicroCount([j \in DOMAIN micro \ {s} |-> micro[j]])

\* the mean taken over the sectors instead of over the values
EmotionalBody_PerSector(results) ==
    [results EXCEPT !.emotional_intelligence =
        IF MicroCount(results.micro) = 0 THEN 0
        ELSE MicroSum(results.micro) \div Cardinality(DOMAIN results.micro)]

\* np.mean(all_micro) if all_micro else 0.0
EmotionalBody(results) ==
    [results EXCEPT !.emotional_intelligence =
        IF MicroCount(results.micro) = 0 THEN 0
        ELSE MicroSum(results.micro) \div MicroCount(results.micro)]

-----------------------------------------------------------------------------
(* main.py: one GET /coherence/report, step by step *)

AbsentReq ==
    [proc |-> 1, pc |-> "absent", i |-> 1, base |-> NoSeries, data |-> EmptyMap,
     macro_ref |-> NoSeries, results |-> NewResults(0), exc |-> "none"]

IdleReq(p) == [AbsentReq EXCEPT !.proc = p, !.pc = "idle"]

Runnable(r) == req[r].pc \notin {"absent", "done", "raised"}

\* the handler thread of r gets the CPU, possibly preempting another one
Schedule(r) ==
    /\ Runnable(r)
    /\ IF running = r \/ running = 0 \/ ~Runnable(running)
       THEN preempts' = preempts
       ELSE preempts < MaxPreempt /\ preempts' = preempts + 1
    /\ running' = r

\* what a step leaves in the request: the next position or the exception
After(r, out, pc2, i2) ==
    IF out.exc # "none"
    THEN [req EXCEPT ![r].pc = "raised", ![r].exc = out.exc,
                     ![r].results = out.results]
    ELSE [req EXCEPT ![r].pc = pc2, ![r].i = i2, ![r].results = out.results]

get_coherence_report(r) ==
    /\ req[r].pc = "idle"
    /\ Schedule(r)
    /\ req' = [req EXCEPT ![r].pc = "seed", ![r].i = 1,
                          ![r].results = NewResults(clock)]
    /\ clock' = clock + 1
    /\ UNCHANGED <<salt, rng, fault, call, ret>>

Seed(r) ==
    /\ req[r].pc = "seed"
    /\ Schedule(r)
    /\ rng' = [rng EXCEPT ![req[r].proc] =
                 Seeded(HashSeed(salt[req[r].proc], all_symbols[req[r].i]))]
    /\ req' = [req EXCEPT ![r].pc = "base"]
    /\ UNCHANGED <<salt, fault, clock, call, ret>>

DrawBase(r) ==
    /\ req[r].pc = "base"
    /\ Schedule(r)
    /\ req' = [req EXCEPT ![r].pc = "volume",
                          ![r].base = BaseSeries(all_symbols[req[r].i],
                                                 BlockId(rng[req[r].proc]), count)]
    /\ rng' = [rng EXCEPT ![req[r].proc] = Advance(@)]
    /\ UNCHANGED <<salt, fault, clock, call, ret>>

DrawVolume(r) ==
    /\ req[r].pc = "volume"
    /\ Schedule(r)
    /\ LET sym == all_symbols[req[r].i]
           volume == VolumeSeries(req[r].base, BlockId(rng[req[r].proc]), count)
           frame == fetch_real_data(sym, req[r].base, volume, fault)
           last == req[r].i = Len(all_symbols)
       IN  req' = [req EXCEPT ![r].data = (sym :> frame) @@ @,
                              ![r].base = NoSeries,
                              ![r].pc = IF last THEN "macro_ref" ELSE "seed",
                              ![r].i = IF last THEN 1 ELSE @ + 1]
    /\ rng' = [rng EXCEPT ![req[r].proc] = Advance(@)]
    /\ UNCHANGED <<salt, fault, clock, call, ret>>

MacroRef(r) ==
    /\ req[r].pc = "macro_ref"
    /\ Schedule(r)
    /\ req' = IF req[r].data["SPY"].isNone
              THEN [req EXCEPT ![r].pc = "raised", ![r].exc = "TypeError"]
              ELSE [req EXCEPT ![r].pc = "macro", ![r].i = 1,
                               ![r].macro_ref = req[r].data["SPY"].close]
    /\ UNCHANGED <<salt, rng, fault, clock, call, ret>>

Macro(r) ==
    /\ req[r].pc = "macro"
    /\ Schedule(r)
    /\ LET out == MacroBody(req[r].data, req[r].macro_ref, req[r].results,
                            SECTORS["Macro"][req[r].i])
           last == req[r].i = Len(SECTORS["Macro"])
       IN  req' = After(r, out, IF last THEN "sector" ELSE "macro",
                        IF last THEN 1 ELSE req[r].i + 1)
    /\ UNCHANGED <<salt, rng, fault, clock, call, ret>>

Sector(r) ==
    /\ req[r].pc = "sector"
    /\ Schedule(r)
    /\ LET out == SectorBody(req[r].data, req[r].macro_ref, req[r].results,
                             SectorNames[req[r].i])
           last == req[r].i = Len(SectorNames)
       IN  req' = After(r, out, IF last THEN "coupling" ELSE "sector",
                        IF last THEN 1 ELSE req[r].i + 1)
    /\ UNCHANGED <<salt, rng, fault, clock, call, ret>>

Coupling(r) ==
    /\ req[r].pc = "coupling"
    /\ Schedule(r)
    /\ req' = After(r, CouplingBody(req[r].data, req[r].results), "emotional", 1)
    /\ UNCHANGED <<salt, rng, fault, clock, call, ret>>

Emotional(r) ==
    /\ req[r].pc = "emotional"
    /\ Schedule(r)
    /\ req' = After(r, Ok(EmotionalBody(req[r].results)), "done", 1)
    /\ UNCHANGED <<salt, rng, fault, clock, call, ret>>

NextEngine ==
    \E r \in Requests :
        \/ get_coherence_report(r)
        \/ Seed(r)
        \/ DrawBase(r)
        \/ DrawVolume(r)
        \/ MacroRef(r)
        \/ Macro(r)
        \/ Sector(r)
        \/ Coupling(r)
        \/ Emotional(r)

NoCall == [op |-> "none"]

NoRet == [exc |-> "none"]

InitEngine ==
    /\ clock = 0
    /\ running = 0
    /\ preempts = 0
    /\ rng = [p \in Procs |-> Unseeded]
    /\ call = NoCall
    /\ ret = NoRet

\* one request served by one server process, the mock data source as coded
InitReport ==
    /\ InitEngine
    /\ \E s \in Salts : salt = [p \in Procs |-> s]
    /\ req = [r \in Requests |-> IF r = 1 THEN IdleReq(1) ELSE AbsentReq]
    /\ fault = NoFault

SpecReport == InitReport /\ [][NextEngine]_vars

\* one request, the data source failing for one symbol
InitFault ==
    /\ InitEngine
    /\ \E s \in Salts : salt = [p \in Procs |-> s]
    /\ req = [r \in Requests |-> IF r = 1 THEN IdleReq(1) ELSE AbsentReq]
    /\ fault \in [sym : Symbols, kind : {"none", "short"}]

SpecFault == InitFault /\ [][NextEngine]_vars

\* one request, the data source serving every symbol or the Macro ones only
InitOutage ==
    /\ InitEngine
    /\ \E s \in Salts : salt = [p \in Procs |-> s]
    /\ req = [r \in Requests |-> IF r = 1 THEN IdleReq(1) ELSE AbsentReq]
    /\ fault \in {NoFault, StocksAbsent}

SpecOutage == InitOutage /\ [][NextEngine]_vars

\* two requests handled by two threads of one server process
InitThreads ==
    /\ InitEngine
    /\ \E s \in Salts : salt = [p \in Procs |-> s]
    /\ req = [r \in Requests |-> IdleReq(1)]
    /\ fault = NoFault

SpecThreads == InitThreads /\ [][NextEngine]_vars

\* two runs of the program: one request in each of two processes
InitRuns ==
    /\ InitEngine
    /\ salt \in [Procs -> Salts]
    /\ req = [r \in Requests |-> IdleReq(r)]
    /\ fault = NoFault

SpecRuns == InitRuns /\ [][NextEngine]_vars

-----------------------------------------------------------------------------
(* market_phase_adapter.py: MarketPhaseAdapter *)

sampling_rate == 1000

price_to_phase(prices) ==
    IF Len(prices) < 2 THEN <<0>>
    ELSE Angles(hilbert(Shift(prices, Mean(prices))))

price_to_amplitude(prices) ==
    IF Len(prices) < 2
    THEN <<IF Len(prices) > 0 THEN Std(prices) ELSE 0>>
    ELSE Moduli(hilbert(Shift(prices, Mean(prices))))

\* the instantaneous frequency taken as np.diff of the phase
price_to_frequency_diff(prices) ==
    IF Len(prices) < 2 THEN <<0>>
    ELSE LET unwrapped_phase == Unwrap(price_to_phase(prices))
             dt == Div(Scale, sampling_rate)
         IN  [k \in 1 .. Len(prices) - 1 |->
                 Div(unwrapped_phase[k + 1] - unwrapped_phase[k], Mul(TwoPi, dt))]

price_to_frequency(prices) ==
    IF Len(prices) < 2 THEN <<0>>
    ELSE LET unwrapped_phase == Unwrap(price_to_phase(prices))
             dt == Div(Scale, sampling_rate)
             g == Gradient(unwrapped_phase)
         IN  [k \in DOMAIN g |-> Div(g[k], Mul(TwoPi, dt))]

\* the optional argument volumes: None, or an array
NoVolumes == [given |-> FALSE, values |-> <<>>]

Volumes(v) == [given |-> TRUE, values |-> v]

\* (volumes - min) / (ptp + 1e-10)
VolNormalized(volumes) ==
    LET lo == SeqMin(volumes)
        ptp == SeqMax(volumes) - lo
    IN  [k \in DOMAIN volumes |->
            IF ptp = 0 THEN 0 ELSE Div(volumes[k] - lo, ptp)]

Representation(e, ph, am, fr, m, sd) ==
    [exc |-> e, phases |-> ph, amplitudes |-> am, frequencies |-> fr,
     mean_price |-> m, std_price |-> sd]

to_oscillator_representation(prices, volumes) ==
    LET phases == price_to_phase(prices)
        amplitudes == price_to_amplitude(prices)
        frequencies == price_to_frequency(prices)
        modulate == volumes.given /\ Len(volumes.values) = Len(prices)
    IN  IF modulate /\ Len(volumes.values) = 0
        THEN \* np.min of an empty array
             Representation("ValueError", <<>>, <<>>, <<>>, 0, 0)
        ELSE Representation("none", phases,
                 IF modulate
                 THEN [k \in DOMAIN amplitudes |->
                         Mul(amplitudes[k], Scale + VolNormalized(volumes.values)[k])]
                 ELSE amplitudes,
                 frequencies, Mean(prices), Std(prices))

\* numpy broadcasting of two one-dimensional shapes; -1: no common shape
BroadcastLen(a, b) ==
    IF a = b THEN a ELSE IF a = 1 THEN b ELSE IF b = 1 THEN a ELSE -1

At(s, k) == IF Len(s) = 1 THEN s[1] ELSE s[k]

\* amplitudes * np.cos(phases) * std_price + mean_price, for n elements
Reconstruct(phases, amplitudes, mean_price, std_price, n) ==
    [k \in 1 .. n |->
        FAdd(FMul(FMul(At(amplitudes, k), Cos(At(phases, k))), std_price),
             mean_price)]

MinCubicPoints == 4

\* from_oscillator_representation(phase_repr) with num_points = None
from_oscillator_representation(phase_repr) ==
    LET num_points == Len(phase_repr.phases)
        n == BroadcastLen(Len(phase_repr.amplitudes), Len(phase_repr.phases))
        reconstructed == Reconstruct(phase_repr.phases, phase_repr.amplitudes,
                                     phase_repr.mean_price, phase_repr.std_price, n)
    IN  IF n < 0 THEN [exc |-> "ValueError", prices |-> <<>>]
        ELSE IF n = num_points THEN [exc |-> "none", prices |-> reconstructed]
        ELSE \* interp1d(kind='cubic') evaluated at x_new = linspace(0, 1, 1)
             IF n < MinCubicPoints THEN [exc |-> "ValueError", prices |-> <<>>]
             ELSE [exc |-> "none", prices |-> <<reconstructed[1]>>]

phase_to_price(phases, amplitudes, mean_price, std_price) ==
    IF Len(phases) # Len(amplitudes)
    THEN [exc |-> "ValueError", prices |-> <<>>]
    ELSE [exc |-> "none",
          prices |-> Reconstruct(phases, amplitudes, mean_price, std_price,
                                 Len(phases))]

-----------------------------------------------------------------------------
(* market_coherence_analyzer.py: MarketCoherenceAnalyzer *)

BandNames == <<"ultra_low", "low", "medium", "high">>

frequency_bands ==
    [ultra_low |-> <<0, 10>>, low |-> <<10, 50>>,
     medium |-> <<50, 150>>, high |-> <<150, 500>>]

Value(v) == [exc |-> "none", value |-> v]

ValueError == [exc |-> "ValueError", value |-> 0]

\* abs(mean(exp(1j * (phase1 - phase2)))) without the length check
PlvOf(phase1, phase2) ==
    IF Len(phase1) = 0 THEN NaN
    ELSE Hypot(Mean([k \in DOMAIN phase1 |-> Cos(phase1[k] - phase2[k])]),
               Mean([k \in DOMAIN phase1 |-> Sin(phase1[k] - phase2[k])]))

calculate_plv(phase1, phase2) ==
    IF Len(phase1) # Len(phase2) THEN ValueError
    ELSE Value(PlvOf(phase1, phase2))

Ln2 == 693

\* np.log of a positive number
RECURSIVE Ln(_)
Ln(x) ==
    IF x <= 0 THEN NaN
    ELSE IF x >= 2 * Scale THEN Ln2 + Ln(DivInt(x, 2))
    ELSE IF x < Scale THEN Ln(2 * x) - Ln2
    ELSE LET y == Div(x - Scale, x + Scale)
             y2 == Mul(y, y)
             y3 == Mul(y, y2)
         IN  2 * (y + DivInt(y3, 3) + DivInt(Mul(y3, y2), 5))

\* np.diff(np.log(s))
DiffLog(s) == [k \in 1 .. Len(s) - 1 |-> FSub(Ln(s[k + 1]), Ln(s[k]))]

\* np.corrcoef(a, b)[0, 1]: nan when either input has no variance
Corrcoef(a, b) ==
    LET ma == Mean(a)
        mb == Mean(b)
        va == SeqSum([k \in DOMAIN a |-> Mul(a[k] - ma, a[k] - ma)])
        vb == SeqSum([k \in DOMAIN b |-> Mul(b[k] - mb, b[k] - mb)])
        cov == SeqSum([k \in DOMAIN a |-> Mul(a[k] - ma, b[k] - mb)])
    IN  IF Len(a) < 2 \/ va = 0 \/ vb = 0 THEN NaN
        ELSE Max2(-Scale, Min2(Scale, Div(cov, Mul(Sqrt(va), Sqrt(vb)))))

\* the score without the np.nan_to_num of line 101
detect_volatility_clustering_NoNanToNum(returns, window) ==
    IF Len(returns) < window * 2 THEN 0
    ELSE LET squared_returns == [k \in DOMAIN returns |-> Mul(returns[k], returns[k])]
             n == Len(squared_returns)
             autocorr == IF n > 1
                         THEN Corrcoef(SubSeq(squared_returns, 1, n - 1),
                                       SubSeq(squared_returns, 2, n))
                         ELSE 0
         IN  FDiv(FAdd(autocorr, Scale), 2 * Scale)

\* the rolling volatility of lines 93-96 is computed and never used
detect_volatility_clustering(returns, window) ==
    IF Len(returns) < window * 2 THEN 0
    ELSE LET squared_returns == [k \in DOMAIN returns |-> Mul(returns[k], returns[k])]
             n == Len(squared_returns)
             c == IF n > 1
                  THEN Corrcoef(SubSeq(squared_returns, 1, n - 1),
                                SubSeq(squared_returns, 2, n))
                  ELSE 0
             autocorr == IF IsNaN(c) THEN 0 ELSE c
         IN  DivInt(autocorr + Scale, 2)

NonEmptyPrices(e) == Len(e.prices) > 0

\* the score with the sector pairs a PLV was computed for
SyncResult(e, v, p) == [exc |-> e, value |-> v, pairs |-> p]

\* the inner loop started at i instead of i + 1
calculate_sector_synchronization_FromI(sector_prices) ==
    LET kept == SelectSeq(sector_prices, NonEmptyPrices)
        phases == [i \in DOMAIN kept |-> Angles(hilbert(kept[i].prices))]
        pairs == {p \in (DOMAIN kept) \X (DOMAIN kept) : p[1] <= p[2]}
        plv_values == [p \in pairs |-> PlvOf(phases[p[1]], phases[p[2]])]
        names == {<<kept[p[1]].name, kept[p[2]].name>> : p \in pairs}
    IN  IF Len(sector_prices) < 2 THEN SyncResult("none", 0, {})
        ELSE IF \E p \in pairs : Len(phases[p[1]]) # Len(phases[p[2]])
             THEN SyncResult("ValueError", 0, {})
        ELSE IF pairs = {} THEN SyncResult("none", 0, {})
        ELSE SyncResult("none", DivInt(MapSum(plv_values), Cardinality(pairs)),
                        names)

\* sector_prices: the dict as the sequence of its items [name, prices]
calculate_sector_synchronization(sector_prices) ==
    LET kept == SelectSeq(sector_prices, NonEmptyPrices)
        phases == [i \in DOMAIN kept |-> Angles(hilbert(kept[i].prices))]
        pairs == {p \in (DOMAIN kept) \X (DOMAIN kept) : p[1] < p[2]}
        plv_values == [p \in pairs |-> PlvOf(phases[p[1]], phases[p[2]])]
        names == {<<kept[p[1]].name, kept[p[2]].name>> : p \in pairs}
    IN  IF Len(sector_prices) < 2 THEN SyncResult("none", 0, {})
        ELSE IF \E p \in pairs : Len(phases[p[1]]) # Len(phases[p[2]])
             THEN SyncResult("ValueError", 0, {})
        ELSE IF pairs = {} THEN SyncResult("none", 0, {})
        ELSE SyncResult("none", DivInt(MapSum(plv_values), Cardinality(pairs)),
                        names)

\* scipy.signal.get_window('hann', N): the periodic Hann window
HannWindow(N) ==
    [n \in 1 .. N |-> IF N = 1 THEN Scale ELSE (Scale - CosTurn(n - 1, N)) \div 2]

\* one Welch segment: detrended by its mean, windowed, transformed
SegmentSpectrum(x, start, N) ==
    LET seg == SubSeq(x, start + 1, start + N)
        m == Mean(seg)
        w == HannWindow(N)
    IN  Dft([n \in 1 .. N |-> Mul(w[n], seg[n] - m)])

\* scipy.signal.coherence(x, y, fs, nperseg): Cxy over the bins 0..nperseg/2
\* with noverlap = nperseg // 2; 0/0 where a spectrum vanishes
WelchCoherence(x, y, nperseg) ==
    LET noverlap == nperseg \div 2
        step == nperseg - noverlap
        nseg == (Len(x) - noverlap) \div step
        X == [s \in 1 .. nseg |-> SegmentSpectrum(x, (s - 1) * step, nperseg)]
        Y == [s \in 1 .. nseg |-> SegmentSpectrum(y, (s - 1) * step, nperseg)]
    IN  [k \in 0 .. nperseg \div 2 |->
            LET pxx == SeqSum([s \in 1 .. nseg |->
                          X[s][k].re * X[s][k].re + X[s][k].im * X[s][k].im])
                pyy == SeqSum([s \in 1 .. nseg |->
                          Y[s][k].re * Y[s][k].re + Y[s][k].im * Y[s][k].im])
                pre == SeqSum([s \in 1 .. nseg |->
                          X[s][k].re * Y[s][k].re + X[s][k].im * Y[s][k].im])
                pim == SeqSum([s \in 1 .. nseg |->
                          X[s][k].re * Y[s][k].im - X[s][k].im * Y[s][k].re])
                dx == Max2(1, DivInt(pxx, Scale))
                dy == Max2(1, DivInt(pyy, Scale))
                nr == DivInt(pre, Scale)
                ni == DivInt(pim, Scale)
            IN  IF pxx = 0 \/ pyy = 0 THEN NaN
                ELSE Mul(Div(nr, dx), Div(nr, dy)) + Mul(Div(ni, dx), Div(ni, dy))]

MinBandLen == 4

MaxBandSeg == 256

\* np.mean(cxy[mask]) over the bins with f_low <= k * fs / nperseg <= f_high
BandMean(cxy, nperseg, band) ==
    LET bins == {k \in DOMAIN cxy :
                    /\ k * sampling_rate >= band[1] * nperseg
                    /\ k * sampling_rate <= band[2] * nperseg}
    IN  IF bins = {} THEN 0
        ELSE IF \E k \in bins : IsNaN(cxy[k]) THEN NaN
        ELSE DivInt(MapSum([k \in bins |-> cxy[k]]), Cardinality(bins))

calculate_frequency_band_coherence(signal1, signal2) ==
    IF Len(signal1) # Len(signal2)
    THEN [exc |-> "ValueError", bands |-> EmptyMap]
    ELSE IF Len(signal1) < MinBandLen
    THEN [exc |-> "none", bands |-> [b \in Range(BandNames) |-> 0]]
    ELSE LET nperseg == Min2(Len(signal1) \div 2, MaxBandSeg)
             cxy == WelchCoherence(signal1, signal2, nperseg)
         IN  [exc |-> "none",
              bands |-> [b \in Range(BandNames) |->
                            BandMean(cxy, nperseg, frequency_bands[b])]]

\* np.argmax(fft_mag[1:]) + 1: the first bin of largest magnitude
detect_dominant_frequency(time_series) ==
    LET n == Len(time_series)
        fft_vals == Dft(time_series)
        fft_mag == [k \in 0 .. n \div 2 - 1 |-> Hypot(fft_vals[k].re, fft_vals[k].im)]
        dominant_idx == CHOOSE k \in 1 .. n \div 2 - 1 :
                            /\ \A j \in 1 .. n \div 2 - 1 : fft_mag[j] <= fft_mag[k]
                            /\ \A j \in 1 .. k - 1 : fft_mag[j] < fft_mag[k]
    IN  IF n < 2 THEN 0
        ELSE IF n \div 2 > 1 THEN DivInt(dominant_idx * sampling_rate, n)
        ELSE 0

\* np.mean(list(d.values()))
MapMean(d) ==
    IF DOMAIN d = {} \/ (\E k \in DOMAIN d : IsNaN(d[k])) THEN NaN
    ELSE DivInt(MapSum(d), Cardinality(DOMAIN d))

\* np.clip(x, 0, 1): nan stays nan
Clip(x) == IF IsNaN(x) THEN NaN ELSE Max2(0, Min2(Scale, x))

calculate_overall_score(plv, volatility_cluster, sector_sync, freq_coherence) ==
    Clip(FAdd(FAdd(FMul(300, plv), FMul(200, FSub(Scale, volatility_cluster))),
              FAdd(FMul(200, sector_sync), FMul(300, MapMean(freq_coherence)))))

\* optional arguments: None, or a value
NoReference == [given |-> FALSE, values |-> <<>>]

Reference(v) == [given |-> TRUE, values |-> v]

NoSectors == [given |-> FALSE, items |-> <<>>]

SectorData(items) == [given |-> TRUE, items |-> items]

DefaultWindow == 20

Metrics(e, p, v, ss, fc, df, o) ==
    [exc |-> e, plv |-> p, volatility_cluster_score |-> v,
     sector_sync_score |-> ss, frequency_coherence |-> fc,
     dominant_frequency |-> df, overall_score |-> o]

NoMetrics == Metrics("ValueError", 0, 0, 0, EmptyMap, 0, 0)

\* lines 308-320: the overall score and the CoherenceMetrics returned, from
\* the results of the metric calls (an exception of a call propagates)
CoherenceMetrics(plv, volatility_score, sector_sync, freq_coherence, dominant_freq) ==
    IF plv.exc # "none" \/ sector_sync.exc # "none" THEN NoMetrics
    ELSE Metrics("none", plv.value, volatility_score, sector_sync.value,
                 freq_coherence.bands, dominant_freq,
                 calculate_overall_score(plv.value, volatility_score,
                                         sector_sync.value,
                                         freq_coherence.bands))

\* np.diff(np.log(safe_signal)) of lines 268-279
AnalyzeReturns(primary_signal, min_val) ==
    IF Len(primary_signal) > 1
    THEN DiffLog(IF min_val <= 0
                 THEN [k \in DOMAIN primary_signal |->
                         primary_signal[k] + Abs(min_val) + Scale]
                 ELSE primary_signal)
    ELSE <<0>>

\* the body of analyze once reference_signal is settled
AnalyzeWith(primary_signal, reference_signal, sector_data) ==
    IF Len(primary_signal) = 0 \/ Len(reference_signal) = 0
    THEN NoMetrics   \* scipy.signal.hilbert: N must be positive
    ELSE CoherenceMetrics(
             calculate_plv(
                 Angles(hilbert(Shift(primary_signal, Mean(primary_signal)))),
                 Angles(hilbert(Shift(reference_signal, Mean(reference_signal))))),
             detect_volatility_clustering(
                 AnalyzeReturns(primary_signal, SeqMin(primary_signal)),
                 DefaultWindow),
             IF sector_data.given /\ Len(sector_data.items) > 0
             THEN calculate_sector_synchronization(sector_data.items)
             ELSE Value(0),
             calculate_frequency_band_coherence(primary_signal, reference_signal),
             detect_dominant_frequency(primary_signal))

analyze(primary_signal, reference, sector_data) ==
    AnalyzeWith(primary_signal,
                IF reference.given THEN reference.values ELSE primary_signal,
                sector_data)

-----------------------------------------------------------------------------
(* The report of a request that runs alone in a fresh process with hash    *)
(* key s: analyze_fractal_coherence composed from its loop bodies          *)

AloneData(s) ==
    [sym \in Symbols |->
        LET st == Seeded(HashSeed(s, sym))
            base == BaseSeries(sym, BlockId(st), count)
            volume == VolumeSeries(base, BlockId(Advance(st)), count)
        IN  fetch_real_data(sym, base, volume, NoFault)]

RECURSIVE MacroLoop(_, _, _, _)
MacroLoop(data, macro_ref, results, symbols) ==
    IF symbols = <<>> THEN results
    ELSE MacroLoop(data, macro_ref,
                   MacroBody(data, macro_ref, results, Head(symbols)).results,
                   Tail(symbols))

RECURSIVE SectorLoop(_, _, _, _)
SectorLoop(data, macro_ref, results, sectors) ==
    IF sectors = <<>> THEN results
    ELSE SectorLoop(data, macro_ref,
                    SectorBody(data, macro_ref, results, Head(sectors)).results,
                    Tail(sectors))

AloneResults(s) ==
    LET data == AloneData(s)
        macro_ref == data["SPY"].close
        r1 == MacroLoop(data, macro_ref, NewResults(0), SECTORS["Macro"])
        r2 == SectorLoop(data, macro_ref, r1, SectorNames)
        r3 == CouplingBody(data, r2).results
    IN  EmotionalBody(r3)

\* every field of a report but the timestamp
ReportValues(res) == [res EXCEPT !.timestamp = 0]

Done(r) == req[r].pc = "done"

MicroSymbols(res) == UNION {DOMAIN res.micro[s] : s \in DOMAIN res.micro}

NonMacroSymbols == Symbols \ Range(SECTORS["Macro"])

HasEntry(res, sym) ==
    \/ ("SPY_vs_" \o sym) \in DOMAIN res.macro
    \/ sym \in MicroSymbols(res)
    \/ sym \in DOMAIN res.faraday_resonance

-----------------------------------------------------------------------------
(* Claims about the hierarchy report *)

\* C1: whatever symbol the data source fails for (absent or undersized
\* series), the request raises nothing, and the report it returns has no
\* entry (macro pair, micro coherence, faraday_resonance) for that symbol
\* while it has the entries of every other symbol.
C1_FailedSymbolOmitted ==
    \A r \in Requests :
        /\ req[r].pc # "raised"
        /\ Done(r) /\ fault.kind # "ok" =>
              /\ ~HasEntry(req[r].results, fault.sym)
              /\ \A sym \in NonMacroSymbols \ {fault.sym} :
                    /\ sym \in MicroSymbols(req[r].results)
                    /\ sym \in DOMAIN req[r].results.faraday_resonance
              /\ \A sym \in Range(SECTORS["Macro"]) \ {"SPY", fault.sym} :
                    ("SPY_vs_" \o sym) \in DOMAIN req[r].results.macro

\* C2: under every interleaving of two handler threads, a request that
\* returns, returns the report values (all fields but timestamp) that the
\* same request returns when it runs alone.
C2_ParallelEqualsAlone ==
    \A r \in Requests :
        Done(r) =>
            ReportValues(req[r].results)
                = ReportValues(AloneResults(salt[req[r].proc]))

\* C3: two executions of the program fetch the same (close, volume) series
\* for every symbol and return reports equal in every field but timestamp.
C3_RunsAgree ==
    \A r1, r2 \in Requests :
        Done(r1) /\ Done(r2) =>
            /\ req[r1].data = req[r2].data
            /\ ReportValues(req[r1].results) = ReportValues(req[r2].results)

\* C10 as stated: in a returned report the symbols with a micro entry, and
\* the keys of faraday_resonance, are all the configured symbols.
C10_EverySymbol ==
    \A r \in Requests :
        Done(r) =>
            /\ MicroSymbols(req[r].results) = Symbols
            /\ DOMAIN req[r].results.faraday_resonance = Symbols

\* C10 amended: in a returned report the symbols with a micro entry, and the
\* keys of faraday_resonance, are exactly the symbols of the non-Macro
\* sectors; the Macro symbols have neither.
C10_EveryNonMacroSymbol ==
    \A r \in Requests :
        Done(r) =>
            /\ MicroSymbols(req[r].results) = NonMacroSymbols
            /\ DOMAIN req[r].results.faraday_resonance = NonMacroSymbols
            /\ DOMAIN req[r].results.micro = Range(SectorNames) \ {"Macro"}

C10_Witness ==
    /\ Done(1)
    /\ "AAPL" \in MicroSymbols(req[1].results)
    /\ "SLB" \in DOMAIN req[1].results.faraday_resonance
    /\ "SPY" \notin MicroSymbols(req[1].results)

\* C11: with all data available, a returned report has the macro keys
\* SPY_vs_QQQ and SPY_vs_DIA (the Macro symbols but the reference SPY), the
\* meso keys <sector>_vs_Market for the four non-Macro sectors, and a micro
\* key for each of those sectors holding exactly the sector's configured
\* symbols; no level has another key.
C11_LevelKeys ==
    \A r \in Requests :
        Done(r) =>
            LET res == req[r].results
            IN  /\ DOMAIN res.macro = {"SPY_vs_QQQ", "SPY_vs_DIA"}
                /\ DOMAIN res.meso = {"Crypto_vs_Market", "Tech_vs_Market",
                                      "Finance_vs_Market", "Energy_vs_Market"}
                /\ DOMAIN res.micro = {"Crypto", "Tech", "Finance", "Energy"}
                /\ \A s \in DOMAIN res.micro :
                      DOMAIN res.micro[s] = Range(SECTORS[s])

C11_Witness ==
    /\ Done(1)
    /\ fault = NoFault
    /\ "SPY_vs_DIA" \in DOMAIN req[1].results.macro
    /\ "Energy_vs_Market" \in DOMAIN req[1].results.meso
    /\ DOMAIN req[1].results.micro["Finance"] = {"JPM", "GS", "BAC"}

\* C13: in a returned report emotional_intelligence is the arithmetic mean
\* of all the values stored under levels.micro, over all sectors together,
\* it is exactly 0.0 when levels.micro holds no value, and it lies in [0,1].
C13_MeanOfMicro ==
    \A r \in Requests :
        Done(r) =>
            LET res == req[r].results
                ei == res.emotional_intelligence
                held == {sym \in Symbols : sym \in MicroSymbols(res)}
                n == Cardinality(held)
                total == SeqSum([k \in DOMAIN all_symbols |->
                            IF all_symbols[k] \in held
                            THEN LET s == CHOOSE s \in DOMAIN res.micro :
                                              all_symbols[k] \in DOMAIN res.micro[s]
                                 IN  res.micro[s][all_symbols[k]]
                            ELSE 0])
            IN  /\ MicroSymbols(res) \subseteq Symbols
                /\ n = 0 => ei = 0
                /\ n > 0 => n * ei <= total /\ total < n * (ei + 1)
                /\ ei >= 0
                /\ ei <= Scale

C13_Witness ==
    /\ Done(1)
    /\ Cardinality(MicroSymbols(req[1].results)) = 13
    /\ req[1].results.emotional_intelligence > 0
    /\ req[1].results.emotional_intelligence < Scale

C13_WitnessEmpty ==
    /\ Done(1)
    /\ fault = StocksAbsent
    /\ req[1].results.micro = EmptyMap
    /\ req[1].results.emotional_intelligence = 0

\* C16: in every returned report, whatever the interleaving of the requests,
\* hemispheric_coupling equals levels.macro["SPY_vs_QQQ"]: both are the
\* coherence of the SPY and QQQ close series the request fetched.
C16_CouplingIsMacroEntry ==
    \A r \in Requests :
        Done(r) =>
            /\ "SPY_vs_QQQ" \in DOMAIN req[r].results.macro
            /\ req[r].results.hemispheric_coupling
                  = req[r].results.macro["SPY_vs_QQQ"]
            /\ req[r].results.hemispheric_coupling
                  = calculate_coherence(req[r].data["SPY"].close,
                                        req[r].data["QQQ"].close)

C16_Witness ==
    /\ Done(1)
    /\ Done(2)
    /\ req[1].results.hemispheric_coupling = req[1].results.macro["SPY_vs_QQQ"]
    /\ req[1].results.hemispheric_coupling > 0
    /\ req[1].results.hemispheric_coupling < Scale
    /\ req[1].data # req[2].data

-----------------------------------------------------------------------------
(* Library calls: the arguments are drawn from bounded sets, one action    *)
(* per function applies it                                                 *)

Pending == [exc |-> "pending"]

SeqsUpTo(S, n) == UNION {[1 .. k -> S] : k \in 0 .. n}

PriceValues == {1000, 3000, 5000}

\* volume arrays: flat ones and ramps
VolumeSeqs(n) == {[k \in 1 .. m |-> 1000 + step * k] : m \in 0 .. n, step \in {0, 500}}

InitLibrary ==
    /\ salt = [p \in Procs |-> 0]
    /\ rng = [p \in Procs |-> Unseeded]
    /\ req = [r \in Requests |-> AbsentReq]
    /\ fault = NoFault
    /\ clock = 0
    /\ running = 0
    /\ preempts = 0
    /\ ret = Pending

Returned(op) == call.op = op /\ ret # Pending

ToOscillator ==
    /\ call.op = "to_oscillator_representation"
    /\ ret = Pending
    /\ ret' = to_oscillator_representation(call.prices, call.volumes)
    /\ UNCHANGED <<call, salt, rng, req, fault, clock, running, preempts>>

\* the round trip: the representation just returned is converted back
RoundTrip ==
    /\ Returned("to_oscillator_representation")
    /\ ret.exc = "none"
    /\ call' = [op |-> "round_trip", prices |-> call.prices,
                volumes |-> call.volumes, phase_repr |-> ret]
    /\ ret' = from_oscillator_representation(ret)
    /\ UNCHANGED <<salt, rng, req, fault, clock, running, preempts>>

InitAdapter ==
    /\ InitLibrary
    /\ call \in [op : {"to_oscillator_representation"},
                 prices : SeqsUpTo(PriceValues, MaxLen),
                 volumes : {NoVolumes}
                           \cup {Volumes(v) : v \in VolumeSeqs(MaxLen)}]

NextAdapter == ToOscillator \/ RoundTrip

SpecAdapter == InitAdapter /\ [][NextAdapter]_vars

SignalValues == {0, 1000}

LengthOps ==
    {"calculate_plv", "calculate_frequency_band_coherence",
     "phase_to_price", "from_oscillator_representation"}

CallPlv ==
    /\ call.op = "calculate_plv"
    /\ ret = Pending
    /\ ret' = calculate_plv(call.a, call.b)
    /\ UNCHANGED <<call, salt, rng, req, fault, clock, running, preempts>>

CallBandCoherence ==
    /\ call.op = "calculate_frequency_band_coherence"
    /\ ret = Pending
    /\ ret' = calculate_frequency_band_coherence(call.a, call.b)
    /\ UNCHANGED <<call, salt, rng, req, fault, clock, running, preempts>>

\* phase_to_price(phases, amplitudes) with mean_price = 0.0, std_price = 1.0
CallPhaseToPrice ==
    /\ call.op = "phase_to_price"
    /\ ret = Pending
    /\ ret' = phase_to_price(call.a, call.b, 0, Scale)
    /\ UNCHANGED <<call, salt, rng, req, fault, clock, running, preempts>>

\* from_oscillator_representation of a PhaseSpaceRepresentation built by hand
CallFromOscillator ==
    /\ call.op = "from_oscillator_representation"
    /\ ret = Pending
    /\ ret' = from_oscillator_representation(
                 Representation("none", call.a, call.b,
                                [k \in DOMAIN call.a |-> 0], 0, Scale))
    /\ UNCHANGED <<call, salt, rng, req, fault, clock, running, preempts>>

InitLengths ==
    /\ InitLibrary
    /\ call \in [op : LengthOps,
                 a : SeqsUpTo(SignalValues, MaxLen),
                 b : SeqsUpTo(SignalValues, MaxLen)]

NextLengths == CallPlv \/ CallBandCoherence \/ CallPhaseToPrice \/ CallFromOscillator

SpecLengths == InitLengths /\ [][NextLengths]_vars

SampleSeries == [len : 0 .. MaxSamples, id : 1 .. 2]

CallCoherence ==
    /\ call.op = "calculate_coherence"
    /\ ret = Pending
    /\ ret' = CoherenceCall(call.s1, call.s2)
    /\ UNCHANGED <<call, salt, rng, req, fault, clock, running, preempts>>

InitCoherence ==
    /\ InitLibrary
    /\ call \in [op : {"calculate_coherence"}, s1 : SampleSeries, s2 : SampleSeries]

SpecCoherence == InitCoherence /\ [][CallCoherence]_vars

ScoreInputs ==
    [op : {"calculate_overall_score"},
     plv : {-200, 0, 500, 1000, 1001, 1300},
     volatility_cluster : {-500, 0, 400, 1000, 1500},
     sector_sync : {0, 700, 1200},
     freq_coherence : [Range(BandNames) -> {0, 600, 1200}]]

SectorChoices ==
    {NoSectors,
     SectorData(<<>>),
     SectorData(<<[name |-> "Tech", prices |-> <<1000, 2000, 1000>>],
                  [name |-> "Energy", prices |-> <<3000, 1000, 2000>>],
                  [name |-> "Finance", prices |-> <<>>]>>),
     SectorData(<<[name |-> "Tech", prices |-> <<1000, 2000, 1000>>],
                  [name |-> "Energy", prices |-> <<3000, 1000>>]>>)}

AnalyzeInputs ==
    [op : {"analyze"},
     primary_signal : SeqsUpTo(SignalValues, MaxLen),
     reference : {NoReference} \cup {Reference(v) : v \in VolumeSeqs(MaxLen)},
     sector_data : SectorChoices]

CallOverallScore ==
    /\ call.op = "calculate_overall_score"
    /\ ret = Pending
    /\ ret' = Value(calculate_overall_score(call.plv, call.volatility_cluster,
                                            call.sector_sync, call.freq_coherence))
    /\ UNCHANGED <<call, salt, rng, req, fault, clock, running, preempts>>

CallAnalyze ==
    /\ call.op = "analyze"
    /\ ret = Pending
    /\ ret' = analyze(call.primary_signal, call.reference, call.sector_data)
    /\ UNCHANGED <<call, salt, rng, req, fault, clock, running, preempts>>

InitAnalyzer ==
    /\ InitLibrary
    /\ call \in ScoreInputs \cup AnalyzeInputs

NextAnalyzer == CallOverallScore \/ CallAnalyze

SpecAnalyzer == InitAnalyzer /\ [][NextAnalyzer]_vars

\* every metric, called with inputs around and below its minimum length
ReturnValues == {-1000, 0, 2000}

Windows == {1, 2, DefaultWindow}

MaxSectors == 3

SectorSeries ==
    {<<>>, <<1000, 2000>>, <<2000, 1000>>, <<3000, 1000, 2000>>, <<1000, 3000, 2000>>}

SectorKeys == <<"Tech", "Energy", "Finance", "Crypto", "Macro">>

\* dicts of n sectors, as the sequence of their items
SectorMaps ==
    UNION {{[i \in 1 .. n |-> [name |-> SectorKeys[i], prices |-> f[i]]] :
               f \in [1 .. n -> SectorSeries]} : n \in 0 .. MaxSectors}

MetricInputs ==
    [op : {"calculate_resonance_stability"}, series : SampleSeries]
    \cup [op : {"detect_volatility_clustering"},
          returns : SeqsUpTo(ReturnValues, MaxLen), window : Windows]
    \cup [op : {"detect_dominant_frequency"},
          time_series : SeqsUpTo(SignalValues, MaxLen)]
    \cup [op : {"calculate_sector_synchronization"}, sector_prices : SectorMaps]
    \cup [op : {"analyze"}, primary_signal : SeqsUpTo(SignalValues, MaxLen),
          reference : {NoReference}, sector_data : {NoSectors}]
    \cup [op : {"calculate_coherence"}, s1 : SampleSeries, s2 : {[len |-> count, id |-> 2]}]
    \cup {[op |-> "calculate_frequency_band_coherence", a |-> x, b |-> x] :
             x \in SeqsUpTo(SignalValues, MaxLen)}
    \cup [op : {"to_oscillator_representation"},
          prices : SeqsUpTo(PriceValues, 2), volumes : {NoVolumes}]

CallResonance ==
    /\ call.op = "calculate_resonance_stability"
    /\ ret = Pending
    /\ ret' = calculate_resonance_stability(call.series)
    /\ UNCHANGED <<call, salt, rng, req, fault, clock, running, preempts>>

CallVolatility ==
    /\ call.op = "detect_volatility_clustering"
    /\ ret = Pending
    /\ ret' = Value(detect_volatility_clustering(call.returns, call.window))
    /\ UNCHANGED <<call, salt, rng, req, fault, clock, running, preempts>>

CallDominantFrequency ==
    /\ call.op = "detect_dominant_frequency"
    /\ ret = Pending
    /\ ret' = Value(detect_dominant_frequency(call.time_series))
    /\ UNCHANGED <<call, salt, rng, req, fault, clock, running, preempts>>

CallSectorSync ==
    /\ call.op = "calculate_sector_synchronization"
    /\ ret = Pending
    /\ ret' = calculate_sector_synchronization(call.sector_prices)
    /\ UNCHANGED <<call, salt, rng, req, fault, clock, running, preempts>>

InitMetrics ==
    /\ InitLibrary
    /\ call \in MetricInputs

NextMetrics ==
    \/ CallResonance
    \/ CallVolatility
    \/ CallDominantFrequency
    \/ CallSectorSync
    \/ CallAnalyze
    \/ CallCoherence
    \/ CallBandCoherence
    \/ ToOscillator

SpecMetrics == InitMetrics /\ [][NextMetrics]_vars

-----------------------------------------------------------------------------
(* Claims about the phase-space adapter *)

\* a is within 10% of b, up to the rounding of the arithmetic
Within10Percent(a, b) ==
    /\ ~IsNaN(a)
    /\ ~IsNaN(b)
    /\ 10 * Abs(a - b) <= Abs(b) + 10 * Tol

\* C4: for a price series of length >= 2 converted without volumes, the
\* series reconstructed by the round trip has a mean within 10% of the mean
\* of the prices and a standard deviation within 10% of their standard
\* deviation.
C4_RoundTripMoments ==
    Returned("round_trip") /\ Len(call.prices) >= 2 /\ ~call.volumes.given =>
        /\ ret.exc = "none"
        /\ Within10Percent(Mean(ret.prices), Mean(call.prices))
        /\ Within10Percent(Std(ret.prices), Std(call.prices))

SameLengths(r, n) ==
    /\ Len(r.phases) = n
    /\ Len(r.amplitudes) = n
    /\ Len(r.frequencies) = n

\* C5 as stated: for every price series, empty ones included, with or
\* without volumes, a representation is returned whose phases, amplitudes
\* and frequencies all have the length of the price series.
C5_LengthOfInput ==
    Returned("to_oscillator_representation") =>
        ret.exc = "none" /\ SameLengths(ret, Len(call.prices))

\* C5 amended: for every price series of length >= 1, with or without
\* volumes, a representation is returned whose phases, amplitudes and
\* frequencies all have the length of the price series; for the empty price
\* series a returned representation holds three sequences of length 1.
C5_LengthOfNonEmptyInput ==
    Returned("to_oscillator_representation") =>
        /\ Len(call.prices) >= 1 =>
              ret.exc = "none" /\ SameLengths(ret, Len(call.prices))
        /\ Len(call.prices) = 0 /\ ret.exc = "none" => SameLengths(ret, 1)

C5_Witness ==
    /\ Returned("to_oscillator_representation")
    /\ Len(call.prices) = 3
    /\ call.volumes.given
    /\ Len(call.volumes.values) = 3
    /\ SameLengths(ret, 3)

-----------------------------------------------------------------------------
(* Claims about the metrics *)

\* C6: calculate_plv, calculate_frequency_band_coherence and the
\* reconstruction of prices from phases and amplitudes (phase_to_price,
\* from_oscillator_representation) raise ValueError whenever their two
\* input sequences differ in length; none returns a result for them.
C6_MismatchRaises ==
    call.op \in LengthOps /\ ret # Pending /\ Len(call.a) # Len(call.b) =>
        ret.exc = "ValueError"

\* C7: calculate_coherence raises for no pair of lengths; it returns exactly
\* 0.0 without a spectral estimate when min(len(s1), len(s2)) < 32, and
\* otherwise hands the estimate the returns of the first min(len) samples of
\* each series and nothing beyond them.
C7_TruncatesToShorter ==
    Returned("calculate_coherence") =>
        LET m == Min2(call.s1.len, call.s2.len)
        IN  /\ ret.exc = "none"
            /\ m < 32 => ret.value = 0 /\ ret.spectral = <<>>
            /\ m >= 32 =>
                  /\ ret.spectral = <<[len |-> m - 1, id |-> call.s1.id],
                                      [len |-> m - 1, id |-> call.s2.id]>>
                  /\ ret.value >= 0
                  /\ ret.value <= Scale

C7_Witness ==
    /\ Returned("calculate_coherence")
    /\ call.s1.len = 34
    /\ call.s2.len = 32
    /\ call.s1.id # call.s2.id
    /\ ret.spectral # <<>>

InUnit(v) == ~IsNaN(v) /\ v >= -Tol /\ v <= Scale + Tol

\* C8: calculate_overall_score returns clamp(0.3*plv + 0.2*(1 - vc)
\* + 0.2*sync + 0.3*mean(bands), 0, 1), a value of [0,1], for every input,
\* and the overall_score of every CoherenceMetrics returned by analyze is a
\* number of [0,1].
C8_ScoreInUnit ==
    /\ Returned("calculate_overall_score") =>
          /\ ret.value >= 0
          /\ ret.value <= Scale
          /\ ret.value =
                Max2(0, Min2(Scale,
                    Mul(300, call.plv) + Mul(200, Scale - call.volatility_cluster)
                    + Mul(200, call.sector_sync)
                    + Mul(300, MapSum(call.freq_coherence)
                                  \div Cardinality(DOMAIN call.freq_coherence))))
    /\ Returned("analyze") /\ ret.exc = "none" =>
          /\ ~IsNaN(ret.overall_score)
          /\ ret.overall_score >= 0
          /\ ret.overall_score <= Scale

\* C9: for two signals of equal length, whatever the length and the
\* variance, calculate_frequency_band_coherence returns a dict whose keys
\* are exactly ultra_low, low, medium, high and whose values are numbers of
\* [0,1], all 0.0 when the length is below 4.
C9_BandsInUnit ==
    Returned("calculate_frequency_band_coherence") /\ Len(call.a) = Len(call.b) =>
        /\ ret.exc = "none"
        /\ DOMAIN ret.bands = {"ultra_low", "low", "medium", "high"}
        /\ \A b \in DOMAIN ret.bands : InUnit(ret.bands[b])
        /\ Len(call.a) < 4 => \A b \in DOMAIN ret.bands : ret.bands[b] = 0

\* C12: below its minimum sample count no metric raises and each returns
\* its neutral value: coherence 0.0 below 32 samples, volatility clustering
\* 0.0 below 2*window, banded coherence 0.0 in every band below 4, phase,
\* amplitude and frequency a single 0.0 below 2, dominant frequency 0.0
\* below 2; analyze and calculate_resonance_stability return a result,
\* raising nothing, for every input length, 0 and 1 included.
C12_NoRaiseBelowFloor ==
    /\ Returned("calculate_coherence") /\ Min2(call.s1.len, call.s2.len) < 32 =>
          ret.exc = "none" /\ ret.value = 0
    /\ Returned("detect_volatility_clustering")
         /\ Len(call.returns) < 2 * call.window =>
          ret = Value(0)
    /\ Returned("calculate_frequency_band_coherence") /\ Len(call.a) < 4 =>
          /\ ret.exc = "none"
          /\ \A b \in DOMAIN ret.bands : ret.bands[b] = 0
    /\ Returned("to_oscillator_representation") /\ Len(call.prices) < 2 =>
          /\ ret.exc = "none"
          /\ ret.phases = <<0>>
          /\ ret.amplitudes = <<0>>
          /\ ret.frequencies = <<0>>
    /\ Returned("detect_dominant_frequency") /\ Len(call.time_series) < 2 =>
          ret = Value(0)
    /\ Returned("analyze") => ret.exc = "none"
    /\ Returned("calculate_resonance_stability") => ret.exc = "none"

\* C14: detect_volatility_clustering(returns, window) raises nothing and
\* returns exactly 0.0 when len(returns) < 2*window; otherwise it returns
\* (a+1)/2 for the lag-1 autocorrelation a of the squared returns, a taken
\* as 0 when it is not a finite number (0.5 for squared returns of zero
\* variance); the result is a finite number of [0,1].
C14_VolatilityScore ==
    Returned("detect_volatility_clustering") =>
        LET n == Len(call.returns)
            sq == [k \in 1 .. n |-> Mul(call.returns[k], call.returns[k])]
            a == IF n > 1 THEN Corrcoef(SubSeq(sq, 1, n - 1), SubSeq(sq, 2, n))
                 ELSE 0
            flat == \/ \A j, k \in 1 .. n - 1 : sq[j] = sq[k]
                    \/ \A j, k \in 2 .. n : sq[j] = sq[k]
        IN  /\ ret.exc = "none"
            /\ ~IsNaN(ret.value)
            /\ ret.value >= 0
            /\ ret.value <= Scale
            /\ n < 2 * call.window => ret.value = 0
            /\ n >= 2 * call.window =>
                  /\ ret.value = DivInt((IF IsNaN(a) THEN 0 ELSE a) + Scale, 2)
                  /\ flat => ret.value = 500

\* returns alternating between a small and a large magnitude: a = -1
C14_Witness ==
    /\ Returned("detect_volatility_clustering")
    /\ call.returns = <<-1000, 2000, -1000, 2000>>
    /\ call.window = 2
    /\ ret.value <= 5

\* C15 as stated: calculate_sector_synchronization returns 0.0 for fewer than 2
\* sectors; for n >= 2 sectors it raises nothing, computes one PLV for each
\* of the n*(n-1)/2 unordered pairs of the given sectors, leaving no sector
\* out, and returns their mean, a number of [0,1].
C15_EveryPairOnce ==
    Returned("calculate_sector_synchronization") =>
        LET given == call.sector_prices
            n == Len(given)
        IN  /\ ret.exc = "none"
            /\ n < 2 => ret.value = 0 /\ ret.pairs = {}
            /\ n >= 2 =>
                  /\ ret.pairs = {<<given[q[1]].name, given[q[2]].name>> :
                                     q \in {p \in (1 .. n) \X (1 .. n) : p[1] < p[2]}}
                  /\ 2 * Cardinality(ret.pairs) = n * (n - 1)
                  /\ InUnit(ret.value)

\* C15 amended: calculate_sector_synchronization returns 0.0 for fewer than
\* 2 sectors. For n >= 2 sectors it leaves the sectors with an empty series
\* out; if the m remaining series differ in length it raises ValueError;
\* otherwise it computes one PLV for each of the m*(m-1)/2 unordered pairs
\* of the remaining sectors and returns their mean, a number of [0,1]
\* (0.0 when m < 2, 1.0 when the remaining series are all the same).
C15_EveryUsablePairOnce ==
    Returned("calculate_sector_synchronization") =>
        LET given == call.sector_prices
            n == Len(given)
            usable == SelectSeq(given, NonEmptyPrices)
            m == Len(usable)
            uniform == \A i, j \in 1 .. m :
                          Len(usable[i].prices) = Len(usable[j].prices)
        IN  /\ n < 2 => ret = SyncResult("none", 0, {})
            /\ n >= 2 /\ ~uniform => ret.exc = "ValueError"
            /\ n >= 2 /\ uniform =>
                  /\ ret.exc = "none"
                  /\ ret.pairs = {<<usable[q[1]].name, usable[q[2]].name>> :
                                     q \in {p \in (1 .. m) \X (1 .. m) : p[1] < p[2]}}
                  /\ 2 * Cardinality(ret.pairs) = m * (m - 1)
                  /\ InUnit(ret.value)
                  /\ m < 2 => ret.value = 0
                  /\ m >= 2 /\ (\A i, j \in 1 .. m : usable[i].prices = usable[j].prices)
                        => ret.value >= Scale - Tol

C15_Witness ==
    /\ Returned("calculate_sector_synchronization")
    /\ Len(call.sector_prices) = 3
    /\ \A i \in 1 .. 3 : Len(call.sector_prices[i].prices) = 3
    /\ call.sector_prices[1].prices # call.sector_prices[2].prices
    /\ ret.pairs = {<<"Tech", "Energy">>, <<"Tech", "Finance">>, <<"Energy", "Finance">>}
    /\ ret.value > 0

====
